---- MODULE Spec2Model ----
(***************************************************************************)
(* Model of the cairo-toolchain xtasks `upgrade` (src/src/upgrade.rs) and  *)
(* `sync-version` (src/src/sync_version.rs).                               *)
(*                                                                         *)
(* Strings the program takes apart or builds (versions, paths, the release *)
(* script) are sequences of tokens, so that parsing, formatting and path   *)
(* joining are computed and not assumed.  Crate names and other opaque     *)
(* strings are TLA+ strings.  A TOML table is the sequence of its entries  *)
(* in document order; an entry carries its key, its item and whether the   *)
(* key/value still carry their own decor (whitespace and comments).        *)
(***************************************************************************)
EXTENDS Naturals, Sequences, FiniteSets, TLC

(* ------------------------------------------------------------------ *)
(* Bounds of the model                                                 *)
(* ------------------------------------------------------------------ *)
MaxEntries == 2
MaxPackages == 2
MaxUnused == 1

(* ------------------------------------------------------------------ *)
(* Generic helpers                                                     *)
(* ------------------------------------------------------------------ *)
Range(s) == {s[i] : i \in 1..Len(s)}

SeqsUpTo(S, n) == UNION {[1..k -> S] : k \in 0..n}

RECURSIVE SelectIdx(_, _, _)
\* the subsequence of s at the indices i (in order) for which keep[i]
SelectIdx(s, keep, i) ==
    IF i > Len(s) THEN <<>>
    ELSE (IF keep[i] THEN <<s[i]>> ELSE <<>>) \o SelectIdx(s, keep, i + 1)

\* index of the first occurrence of x in s, 0 when there is none
IndexOf(s, x) ==
    IF x \in Range(s) THEN CHOOSE i \in 1..Len(s) : s[i] = x /\ \A j \in 1..(i-1) : s[j] # x
    ELSE 0

Some(x) == [some |-> TRUE, v |-> x]
NoneStr == [some |-> FALSE, v |-> <<>>]

(* ------------------------------------------------------------------ *)
(* Crate names and their byte-wise (str::cmp) order                    *)
(* ------------------------------------------------------------------ *)
KeyOrder == << "anyhow", "cairo-lang-compiler", "cairo-lang-utils",
               "cairo-language-server", "cairo-lint-core", "cairo-test" >>
Rank(k) == CHOOSE i \in 1..Len(KeyOrder) : KeyOrder[i] = k
KeyLess(a, b) == Rank(a) < Rank(b)

\* s.starts_with("cairo-lang-")
StartsWithCairoLang(s) == s \in {"cairo-lang-compiler", "cairo-lang-utils"}

(* ------------------------------------------------------------------ *)
(* semver::Version: parse and Display                                  *)
(* ------------------------------------------------------------------ *)
Digits == << "0", "1", "2", "3" >>
IsNum(t) == t \in Range(Digits)
ToNum(t) == (CHOOSE i \in 1..Len(Digits) : Digits[i] = t) - 1
NumStr(n) == Digits[n + 1]
IdentToks == {"rc", "build5", "ci"} \cup Range(Digits)
DOT == "."
DASH == "-"
PLUS == "+"

\* a non-empty dot-separated list of non-empty identifiers ('-' is an identifier character)
IsIdentList(s) ==
    /\ Len(s) > 0
    /\ s[1] # DOT /\ s[Len(s)] # DOT
    /\ \A i \in 1..Len(s) : s[i] \in IdentToks \cup {DOT, DASH}
    /\ \A i \in 1..(Len(s) - 1) : ~(s[i] = DOT /\ s[i+1] = DOT)

NoVersion == [major |-> 0, minor |-> 0, patch |-> 0, pre |-> <<>>, build |-> <<>>]

\* <Version as FromStr>::from_str
ParseVersion(s) ==
    LET p    == IndexOf(s, PLUS)
        body == IF p = 0 THEN s ELSE SubSeq(s, 1, p - 1)
        bld  == IF p = 0 THEN <<>> ELSE SubSeq(s, p + 1, Len(s))
        d    == IndexOf(body, DASH)
        core == IF d = 0 THEN body ELSE SubSeq(body, 1, d - 1)
        pre  == IF d = 0 THEN <<>> ELSE SubSeq(body, d + 1, Len(body))
        ok   == /\ Len(core) = 5
                /\ IsNum(core[1]) /\ core[2] = DOT /\ IsNum(core[3])
                /\ core[4] = DOT /\ IsNum(core[5])
                /\ (d # 0 => IsIdentList(pre))
                /\ (p # 0 => IsIdentList(bld))
    IN IF ok
       THEN [ok |-> TRUE,
             v |-> [major |-> ToNum(core[1]), minor |-> ToNum(core[3]),
                    patch |-> ToNum(core[5]), pre |-> pre, build |-> bld]]
       ELSE [ok |-> FALSE, v |-> NoVersion]

\* <BuildMetadata as FromStr>::from_str: the empty string is BuildMetadata::EMPTY
ParseBuild(s) ==
    IF s = <<>> \/ IsIdentList(s) THEN [ok |-> TRUE, v |-> s] ELSE [ok |-> FALSE, v |-> <<>>]

\* <Version as Display>::fmt
VersionToString(v) ==
    << NumStr(v.major), DOT, NumStr(v.minor), DOT, NumStr(v.patch) >>
      \o (IF v.pre = <<>> THEN <<>> ELSE <<DASH>> \o v.pre)
      \o (IF v.build = <<>> THEN <<>> ELSE <<PLUS>> \o v.build)

(* ------------------------------------------------------------------ *)
(* toml_edit items, tables and the document                            *)
(* ------------------------------------------------------------------ *)
\* Item kinds: "string", "array", "inline" are Item::Value (of that Value kind);
\* "table" is Item::Table, for which as_value_mut() is None.
StrItem(s) == [kind |-> "string", s |-> s, fields |-> <<>>]
ArrItem(s) == [kind |-> "array", s |-> s, fields |-> <<>>]
InlineItem(fs) == [kind |-> "inline", s |-> <<>>, fields |-> fs]
TableItem(fs) == [kind |-> "table", s |-> <<>>, fields |-> fs]
IsValue(item) == item.kind \in {"string", "array", "inline"}

Field(k, v) == [k |-> k, v |-> v]
FieldNames(fs) == {fs[i].k : i \in 1..Len(fs)}
HasField(fs, k) == k \in FieldNames(fs)
GetField(fs, k) == fs[CHOOSE i \in 1..Len(fs) : fs[i].k = k].v

\* InlineTable::insert: replaces the value of an existing key in place, else appends
InlineInsert(fs, k, v) ==
    IF HasField(fs, k)
    THEN [i \in 1..Len(fs) |-> IF fs[i].k = k THEN Field(k, v) ELSE fs[i]]
    ELSE Append(fs, Field(k, v))

\* An entry of a table: decor is TRUE while the key/value carry whitespace or
\* comments of their own (as parsed), FALSE for the default decor.
Entry(k, item, decor) == [key |-> k, item |-> item, decor |-> decor]
EntryKeys(es) == {es[i].key : i \in 1..Len(es)}
HasKey(es, k) == k \in EntryKeys(es)
GetEntry(es, k) == es[CHOOSE i \in 1..Len(es) : es[i].key = k]

\* A table slot of the document: kind "none" (no such key), "table" (Item::Table)
\* or "value" (the key holds something as_table_mut() rejects).
NoTable == [kind |-> "none", entries |-> <<>>]
Table(es) == [kind |-> "table", entries |-> es]
NotATable == [kind |-> "value", entries |-> <<>>]

\* Table::remove (shift_remove keeps the order of the rest)
TableRemove(es, k) == SelectIdx(es, [i \in 1..Len(es) |-> es[i].key # k], 1)

\* Table::insert: an existing key keeps its place and key, else a new entry is appended
TableInsert(es, k, item) ==
    IF HasKey(es, k)
    THEN [i \in 1..Len(es) |-> IF es[i].key = k THEN [es[i] EXCEPT !.item = item] ELSE es[i]]
    ELSE Append(es, Entry(k, item, FALSE))

\* Table::fmt (decorate_table): clears the decor of every key/value pair whose
\* item is a value
TableFmt(es) ==
    [i \in 1..Len(es) |-> IF IsValue(es[i].item) THEN [es[i] EXCEPT !.decor = FALSE] ELSE es[i]]

RECURSIVE InsertSorted(_, _)
InsertSorted(sorted, e) ==
    IF sorted = <<>> THEN <<e>>
    ELSE IF KeyLess(e.key, Head(sorted).key) THEN <<e>> \o sorted
    ELSE <<Head(sorted)>> \o InsertSorted(Tail(sorted), e)

RECURSIVE SortFrom(_, _)
SortFrom(es, i) == IF i = 0 THEN <<>> ELSE InsertSorted(SortFrom(es, i - 1), es[i])

\* a faulty variant of TableSortValues: the entries come out in reverse document order
ReverseEntries(es) == [i \in 1..Len(es) |-> es[Len(es) + 1 - i]]

\* Table::sort_values: the entries ordered by key
TableSortValues(es) == SortFrom(es, Len(es))

TablePaths == {"dependencies", "dev-dependencies", "workspace.dependencies"}

\* [package] / [workspace.package]: kind "none", "table" (Item::Table) or
\* "inline" (an inline table, which as_table_mut() rejects)
Pkg(kind, version) == [kind |-> kind, version |-> version]
NoPkg == Pkg("none", <<>>)

Doc(deps, patch, wsPackage, package) ==
    [deps |-> deps, patch |-> patch, wsPackage |-> wsPackage, package |-> package]

\* the outcome of a fallible step: ok, or not (an Err return or a panic)
Ok(doc) == [ok |-> TRUE, doc |-> doc]
Failed(doc) == [ok |-> FALSE, doc |-> doc]

(* ------------------------------------------------------------------ *)
(* upgrade: Args, tool_crates, tool_repo                               *)
(* ------------------------------------------------------------------ *)
NoneVersion == [some |-> FALSE, v |-> NoVersion]
SpecOf(version, rev, branch, path) ==
    [version |-> version, rev |-> rev, branch |-> branch, path |-> path]

OPEN == "CRATES_TO_PUBLISH=("
CLOSE == ")"

RECURSIVE InsertName(_, _)
InsertName(sorted, n) ==
    IF sorted = <<>> THEN <<n>>
    ELSE IF KeyLess(n, Head(sorted)) THEN <<n>> \o sorted
    ELSE <<Head(sorted)>> \o InsertName(Tail(sorted), n)

RECURSIVE SortNamesFrom(_, _)
SortNamesFrom(ns, i) == IF i = 0 THEN <<>> ELSE InsertName(SortNamesFrom(ns, i - 1), ns[i])

\* the ref of the raw.githubusercontent.com URL that is fetched
FetchRef(spec) ==
    IF spec.version.some THEN <<"refs/tags/v">> \o VersionToString(spec.version.v)
    ELSE IF spec.rev.some THEN spec.rev.v
    ELSE IF spec.branch.some THEN <<"refs/heads/">> \o spec.branch.v
    ELSE <<"refs/heads/main">>

\* the part of pull_cairo_packages_from_cairo_repository after the script is read:
\* the words between the first "CRATES_TO_PUBLISH=(" and the next ")" that start
\* with "cairo-lang-", sorted
ExtractCrates(script) ==
    LET o    == IndexOf(script, OPEN)
        rest == SubSeq(script, o + 1, Len(script))
        c    == IndexOf(rest, CLOSE)
        list == SubSeq(rest, 1, c - 1)
        kept == SelectIdx(list, [i \in 1..Len(list) |-> StartsWithCairoLang(list[i])], 1)
    IN IF o = 0 \/ c = 0 THEN [ok |-> FALSE, crates |-> <<>>]
       ELSE [ok |-> TRUE, crates |-> SortNamesFrom(kept, Len(kept))]

\* Args::tool_crates, with `cairo` the content of CAIRO_CACHE
ToolCrates(dep, cairo) ==
    CASE dep = "cairo" -> cairo
      [] dep = "cairols" -> << "cairo-language-server" >>
      [] dep = "cairolint" -> << "cairo-lint-core" >>

\* a faulty variant of ToolOwnsCrate: the filter on the group's crates is lost
OwnsEveryCrate(crates, name) == TRUE

\* Args::tool_owns_crate
ToolOwnsCrate(crates, name) == name \in Range(crates)

\* Args::tool_repo
ToolRepo(dep) ==
    CASE dep = "cairo" -> "https://github.com/starkware-libs/cairo"
      [] dep = "cairols" -> "https://github.com/software-mansion/cairols"
      [] dep = "cairolint" -> "https://github.com/software-mansion/cairo-lint"

(* ------------------------------------------------------------------ *)
(* upgrade: edit_dependencies                                          *)
(* ------------------------------------------------------------------ *)
\* copy_dependency_features
CopyDependencyFeatures(dest, src) ==
    IF src.kind = "inline" /\ HasField(src.fields, "features")
    THEN InlineInsert(dest, "features", GetField(src.fields, "features"))
    ELSE dest

\* a faulty variant of SimplifyDependencyTable: the table is never collapsed
NeverSimplify(dep) == dep

\* simplify_dependency_table
SimplifyDependencyTable(dep) ==
    IF dep.kind = "inline" /\ Len(dep.fields) = 1 /\ HasField(dep.fields, "version")
    THEN GetField(dep.fields, "version")
    ELSE dep

\* the requirement written for an owned crate
VersionReq(spec) ==
    IF spec.version.some THEN VersionToString(spec.version.v) ELSE << "*" >>

\* the body of the loop over the owned entries
RewriteDep(dep, spec) ==
    SimplifyDependencyTable(
        InlineItem(CopyDependencyFeatures(<< Field("version", StrItem(VersionReq(spec))) >>, dep)))

\* edit_dependencies on the table at tablePath; crates is args.tool_crates()
EditDependencies(doc, tablePath, spec, crates) ==
    LET t == doc.deps[tablePath]
        owned(i) == ToolOwnsCrate(crates, t.entries[i].key)
        rewritten == [i \in 1..Len(t.entries) |->
                        IF owned(i)
                        THEN [t.entries[i] EXCEPT !.item = RewriteDep(t.entries[i].item, spec)]
                        ELSE t.entries[i]]
    IN CASE t.kind = "none" -> Ok(doc)
         [] t.kind = "value" -> Failed(doc)
         [] OTHER ->
              IF \E i \in 1..Len(t.entries) : owned(i) /\ ~IsValue(t.entries[i].item)
              THEN Failed(doc)
              ELSE Ok([doc EXCEPT !.deps[tablePath].entries =
                                      TableSortValues(TableFmt(rewritten))])

\* whether edit_dependencies evaluates args.tool_crates() (the filter closure
\* runs once per entry of an existing table)
EditDependenciesNeedsCrates(doc, tablePath) ==
    doc.deps[tablePath].kind = "table" /\ doc.deps[tablePath].entries # <<>>

(* ------------------------------------------------------------------ *)
(* upgrade: edit_patch                                                 *)
(* ------------------------------------------------------------------ *)
\* PathBuf::join with a relative component
PathJoin(p, c) ==
    IF p = <<>> THEN <<c>>
    ELSE IF p[Len(p)] = "/" THEN Append(p, c)
    ELSE p \o << "/", c >>

HasOverride(spec) == spec.rev.some \/ spec.branch.some \/ spec.path.some

\* a faulty variant of PatchDep: the git field is added for a path source too
PatchDepGitAlways(depName, dep, spec) ==
    LET f1 == << Field("git", StrItem(<< ToolRepo(dep) >>)) >>
        f2 == IF spec.branch.some
              THEN InlineInsert(f1, "branch", StrItem(spec.branch.v)) ELSE f1
        f3 == IF spec.rev.some
              THEN InlineInsert(f2, "rev", StrItem(spec.rev.v)) ELSE f2
        f4 == IF spec.path.some
              THEN InlineInsert(f3, "path",
                                StrItem(PathJoin(PathJoin(spec.path.v, "crates"), depName)))
              ELSE f3
    IN InlineItem(f4)

\* the inline table built for one crate of the group
PatchDep(depName, dep, spec) ==
    LET f0 == <<>>
        f1 == IF spec.rev.some \/ spec.branch.some
              THEN InlineInsert(f0, "git", StrItem(<< ToolRepo(dep) >>)) ELSE f0
        f2 == IF spec.branch.some
              THEN InlineInsert(f1, "branch", StrItem(spec.branch.v)) ELSE f1
        f3 == IF spec.rev.some
              THEN InlineInsert(f2, "rev", StrItem(spec.rev.v)) ELSE f2
        f4 == IF spec.path.some
              THEN InlineInsert(f3, "path",
                                StrItem(PathJoin(PathJoin(spec.path.v, "crates"), depName)))
              ELSE f3
    IN InlineItem(f4)

RECURSIVE RemoveAll(_, _, _)
\* the loop `for crate_name in args.tool_crates() { patch.remove(crate_name); }`
RemoveAll(es, crates, i) ==
    IF i > Len(crates) THEN es ELSE RemoveAll(TableRemove(es, crates[i]), crates, i + 1)

RECURSIVE InsertAll(_, _, _, _, _)
\* the loop `for &dep_name in args.tool_crates() { ... patch.insert(dep_name, dep.into()); }`
InsertAll(es, crates, i, dep, spec) ==
    IF i > Len(crates) THEN es
    ELSE InsertAll(TableInsert(es, crates[i], PatchDep(crates[i], dep, spec)),
                   crates, i + 1, dep, spec)

\* edit_patch; crates is args.tool_crates()
EditPatch(doc, dep, spec, crates) ==
    LET cleared  == RemoveAll(doc.patch.entries, crates, 1)
        inserted == IF HasOverride(spec) THEN InsertAll(cleared, crates, 1, dep, spec)
                    ELSE cleared
    IN IF doc.patch.kind # "table" THEN Failed(doc)
       ELSE Ok([doc EXCEPT !.patch.entries = TableSortValues(TableFmt(inserted))])

(* ------------------------------------------------------------------ *)
(* upgrade: purge_unused_patches                                       *)
(* ------------------------------------------------------------------ *)
\* The lock document: valid is FALSE when Cargo.lock cannot be read or parsed;
\* packages is the [[package]] array (present or not); unused is the
\* [[patch.unused]] array (present or not), a record of which may lack a name.
Lock(valid, hasPackages, packages, hasUnused, unused) ==
    [valid |-> valid, hasPackages |-> hasPackages, packages |-> packages,
     hasUnused |-> hasUnused, unused |-> unused]
Package(name, version) == [name |-> name, version |-> version]
UnusedRec(named, name) == [named |-> named, name |-> name]

\* find_unused_patches
FindUnusedPatches(lock) ==
    IF lock.hasUnused
    THEN [some |-> TRUE,
          v |-> LET named == SelectIdx(lock.unused,
                                        [i \in 1..Len(lock.unused) |-> lock.unused[i].named], 1)
                IN [i \in 1..Len(named) |-> named[i].name]]
    ELSE [some |-> FALSE, v |-> <<>>]

\* a faulty variant of PurgeUnusedPatches: the retain predicate is inverted
PurgeKeepsUnused(doc, lock) ==
    LET unused == FindUnusedPatches(lock)
        es     == doc.patch.entries
    IN IF ~lock.valid THEN Failed(doc)
       ELSE IF ~unused.some THEN Ok(doc)
       ELSE IF doc.patch.kind # "table" THEN Failed(doc)
       ELSE Ok([doc EXCEPT !.patch.entries =
                   SelectIdx(es, [i \in 1..Len(es) |-> es[i].key \in Range(unused.v)], 1)])

\* purge_unused_patches, with `lock` what Cargo.lock holds when it is read
PurgeUnusedPatches(doc, lock) ==
    LET unused == FindUnusedPatches(lock)
        es     == doc.patch.entries
    IN IF ~lock.valid THEN Failed(doc)
       ELSE IF ~unused.some THEN Ok(doc)
       ELSE IF doc.patch.kind # "table" THEN Failed(doc)
       ELSE Ok([doc EXCEPT !.patch.entries =
                   SelectIdx(es, [i \in 1..Len(es) |-> es[i].key \notin Range(unused.v)], 1)])

(* ------------------------------------------------------------------ *)
(* sync-version                                                        *)
(* ------------------------------------------------------------------ *)
\* a faulty variant of ExpectedVersion: the first matching package is taken
ExpectedVersionFirstMatch(lock) ==
    LET pkgs == SelectIdx(lock.packages,
                          [i \in 1..Len(lock.packages) |->
                              lock.packages[i].name = "cairo-lang-compiler"], 1)
    IN IF ~lock.valid \/ ~lock.hasPackages THEN [ok |-> FALSE, v |-> NoVersion]
       ELSE IF Len(pkgs) = 0 THEN [ok |-> FALSE, v |-> NoVersion]
       ELSE ParseVersion(pkgs[1].version)

\* expected_version
ExpectedVersion(lock) ==
    LET pkgs == SelectIdx(lock.packages,
                          [i \in 1..Len(lock.packages) |->
                              lock.packages[i].name = "cairo-lang-compiler"], 1)
    IN IF ~lock.valid \/ ~lock.hasPackages THEN [ok |-> FALSE, v |-> NoVersion]
       ELSE IF Len(pkgs) # 1 THEN [ok |-> FALSE, v |-> NoVersion]
       ELSE ParseVersion(pkgs[1].version)

\* the table main writes to: "workspace.package", "package" or "" (the unwrap panics)
TargetTable(doc) ==
    IF doc.wsPackage.kind = "table" THEN "workspace.package"
    ELSE IF doc.package.kind = "table" THEN "package"
    ELSE ""

\* the version after the --build and --no-pre-release overrides
ApplyOverrides(version, build, noPreRelease) ==
    LET b  == ParseBuild(build.v)
        v1 == IF build.some THEN [version EXCEPT !.build = b.v] ELSE version
        v2 == IF noPreRelease THEN [v1 EXCEPT !.pre = <<>>] ELSE v1
    IN IF build.some /\ ~b.ok THEN [ok |-> FALSE, v |-> NoVersion]
       ELSE [ok |-> TRUE, v |-> v2]

\* package["version"] = value(version.to_string())
SetVersion(doc, target, version) ==
    IF target = "workspace.package"
    THEN [doc EXCEPT !.wsPackage.version = VersionToString(version)]
    ELSE [doc EXCEPT !.package.version = VersionToString(version)]

\* the in-memory part of sync_version::main, up to the preview
SyncCompute(doc, lock, build, noPreRelease) ==
    LET target == TargetTable(doc)
        ev     == ExpectedVersion(lock)
        ov     == ApplyOverrides(ev.v, build, noPreRelease)
    IN IF target = "" \/ ~ev.ok \/ ~ov.ok THEN Failed(doc)
       ELSE Ok(SetVersion(doc, target, ov.v))

(* ------------------------------------------------------------------ *)
(* State                                                               *)
(* ------------------------------------------------------------------ *)
VARIABLES
    cmd,        \* the subcommand the user ran: "upgrade" or "sync-version"
    args,       \* its parsed Args
    disk,       \* Cargo.toml on disk: [valid, doc]
    disk0,      \* Cargo.toml on disk when the run started (history)
    lock,       \* Cargo.lock on disk
    mem,        \* upgrade::main's cargo_toml
    pc,         \* where upgrade::main is
    cache,      \* CAIRO_CACHE: [set, crates]
    log,        \* external commands run and files written or read, in order
    stderr,     \* the preview sections printed, in order
    failedAt,   \* the step that failed, "" while none has
    spc,        \* where sync_version::main is
    smem,       \* sync_version::main's cargo_toml
    last        \* the last operation applied and the document before it (history)

vars == << cmd, args, disk, disk0, lock, mem, pc, cache, log, stderr, failedAt,
           spc, smem, last >>

File(valid, doc) == [valid |-> valid, doc |-> doc]
EmptyDoc == Doc([p \in TablePaths |-> NoTable], NoTable, NoPkg, NoPkg)
Event(ev, by, ok, data) == [ev |-> ev, by |-> by, ok |-> ok, data |-> data]
NoLast == [op |-> "none", path |-> "", before |-> EmptyDoc]

UpgradeArgs(dep, spec, dryRun) == [dep |-> dep, spec |-> spec, dry_run |-> dryRun]
SyncArgs(dryRun, build, noPreRelease) ==
    [dry_run |-> dryRun, build |-> build, no_pre_release |-> noPreRelease]
\* `cargo xtask sync-version` as upgrade runs it: no flag given
DefaultSyncArgs == SyncArgs(FALSE, NoneStr, FALSE)
CurSyncArgs == IF cmd = "upgrade" THEN DefaultSyncArgs ELSE args

(* ------------------------------------------------------------------ *)
(* Inputs                                                              *)
(* ------------------------------------------------------------------ *)
V100 == << "1", ".", "0", ".", "0" >>
V230 == << "2", ".", "3", ".", "0" >>
V230rc1b5 == << "2", ".", "3", ".", "0", "-", "rc", ".", "1", "+", "build5" >>
V010 == << "0", ".", "1", ".", "0" >>
BadVersion == << "2", ".", "3" >>

Rev == << "abcd123" >>
Branch == << "main" >>
RootRel == << "..", "/", "cairo" >>
RootSlash == << "/", "opt", "/", "cairo", "/" >>

\* clap's group: at least one of the four; rev excludes branch; path excludes both
Specs ==
    LET ver == Some(ParseVersion(V230).v)
    IN { SpecOf(ver, NoneStr, NoneStr, NoneStr),
         SpecOf(NoneVersion, Some(Rev), NoneStr, NoneStr),
         SpecOf(NoneVersion, NoneStr, Some(Branch), NoneStr),
         SpecOf(NoneVersion, NoneStr, NoneStr, Some(RootRel)),
         SpecOf(NoneVersion, NoneStr, NoneStr, Some(RootSlash)),
         SpecOf(ver, Some(Rev), NoneStr, NoneStr),
         SpecOf(ver, NoneStr, Some(Branch), NoneStr),
         SpecOf(ver, NoneStr, NoneStr, Some(RootRel)) }

DepNames == {"cairo", "cairols", "cairolint"}

\* scripts/release_crates.sh as read or fetched: [ok, script]
ScriptSources ==
    { [ok |-> FALSE, script |-> <<>>],
      [ok |-> TRUE, script |-> << "set -e", OPEN, "cairo-lang-utils", "cairo-test",
                                  "cairo-lang-compiler", CLOSE, "publish" >>],
      [ok |-> TRUE, script |-> << OPEN, "cairo-lang-compiler", CLOSE >>],
      [ok |-> TRUE, script |-> << "echo", CLOSE >>],
      [ok |-> TRUE, script |-> << OPEN, "cairo-lang-utils" >>] }

FeaturesItem == ArrItem(<< "serde" >>)
GitInline == InlineItem(<< Field("version", StrItem(V100)), Field("features", FeaturesItem),
                           Field("git", StrItem(<< "https://example.org/fork" >>)) >>)
PathInline == InlineItem(<< Field("path", StrItem(<< "..", "/", "x" >>)) >>)

DepsA == Table(<< Entry("cairo-lang-compiler", StrItem(V100), FALSE),
                  Entry("anyhow", StrItem(V100), TRUE) >>)
DepsB == Table(<< Entry("cairo-lint-core", StrItem(V100), FALSE),
                  Entry("cairo-language-server", GitInline, TRUE) >>)
\* [dev-dependencies.cairo-lint-core] written as a table of its own
DepsT == Table(<< Entry("cairo-lint-core", TableItem(<< Field("version", StrItem(V100)) >>),
                        FALSE) >>)
PatchOld == Table(<< Entry("cairo-lang-utils",
                           InlineItem(<< Field("git", StrItem(<< "https://example.org/fork" >>)),
                                         Field("rev", StrItem(<< "0ld" >>)) >>), FALSE),
                     Entry("anyhow", PathInline, TRUE) >>)

PkgPairs == { << NoPkg, Pkg("table", V010) >>,
              << Pkg("table", V010), Pkg("table", V010) >>,
              << Pkg("table", V010), NoPkg >>,
              << Pkg("inline", V010), Pkg("table", V010) >>,
              << Pkg("inline", V010), NoPkg >>,
              << NoPkg, NoPkg >> }

\* manifests upgrade is run on
UpgradeDocs ==
    { Doc([p \in TablePaths |-> CASE p = "dependencies" -> d
                                 [] p = "dev-dependencies" -> v
                                 [] OTHER -> w],
          pt, pp[1], pp[2]) :
        d \in {NoTable, DepsA}, v \in {NoTable, DepsT, NotATable}, w \in {NoTable, DepsB},
        pt \in {NoTable, Table(<<>>), PatchOld},
        pp \in { << NoPkg, Pkg("table", V010) >>, << NoPkg, NoPkg >> } }

\* manifests sync-version is run on
SyncDocs == { Doc([p \in TablePaths |-> NoTable], NoTable, pp[1], pp[2]) : pp \in PkgPairs }

\* what `cargo fetch` may leave in Cargo.lock
FetchedLocks ==
    { Lock(FALSE, FALSE, <<>>, FALSE, <<>>),
      Lock(TRUE, TRUE, << Package("cairo-lang-compiler", V230rc1b5) >>, FALSE, <<>>),
      Lock(TRUE, TRUE, << Package("anyhow", V100), Package("cairo-lang-compiler", V230) >>,
           TRUE, << UnusedRec(TRUE, "cairo-lang-utils") >>),
      Lock(TRUE, TRUE, << Package("anyhow", V100) >>,
           TRUE, << UnusedRec(FALSE, ""), UnusedRec(TRUE, "anyhow") >>),
      Lock(TRUE, FALSE, <<>>, TRUE, <<>>) }

\* lock documents sync-version is run on
PackageChoices ==
    { Package(n, v) : n \in {"cairo-lang-compiler", "anyhow"}, v \in {V230rc1b5, V100, BadVersion} }
SyncLocks ==
    { Lock(FALSE, FALSE, <<>>, FALSE, <<>>), Lock(TRUE, FALSE, <<>>, FALSE, <<>>) }
      \cup { Lock(TRUE, TRUE, ps, FALSE, <<>>) : ps \in SeqsUpTo(PackageChoices, MaxPackages) }

BuildChoices == { NoneStr, Some(<<>>), Some(<< "ci" >>), Some(<< "ci", ".", "1" >>),
                  Some(<< "+" >>) }

(* ------------------------------------------------------------------ *)
(* The program: Init                                                   *)
(* ------------------------------------------------------------------ *)
InitUpgrade ==
    /\ cmd = "upgrade"
    /\ args \in { UpgradeArgs(d, sp, dr) : d \in DepNames, sp \in Specs, dr \in BOOLEAN }
    /\ disk \in { File(TRUE, d) : d \in UpgradeDocs } \cup { File(FALSE, EmptyDoc) }
    /\ lock = Lock(TRUE, TRUE, << Package("cairo-lang-compiler", V100) >>, FALSE, <<>>)
    /\ pc = "start"
    /\ spc = "idle"

InitSync ==
    /\ cmd = "sync-version"
    /\ args \in { SyncArgs(dr, b, np) : dr \in BOOLEAN, b \in BuildChoices, np \in BOOLEAN }
    /\ disk \in { File(TRUE, d) : d \in SyncDocs } \cup { File(FALSE, EmptyDoc) }
    /\ lock \in SyncLocks
    /\ pc = "idle"
    /\ spc = "start"

Init ==
    /\ (InitUpgrade \/ InitSync)
    /\ disk0 = disk
    /\ mem = EmptyDoc
    /\ smem = EmptyDoc
    /\ cache = [set |-> FALSE, crates |-> <<>>]
    /\ log = <<>>
    /\ stderr = <<>>
    /\ failedAt = ""
    /\ last = NoLast

(* ------------------------------------------------------------------ *)
(* upgrade::main, step by step                                         *)
(* ------------------------------------------------------------------ *)
\* a faulty variant of ShouldPersist: the dry-run flag is ignored
AlwaysPersist(a) == TRUE

\* `if !args.dry_run`
ShouldPersist(a) == ~a.dry_run

\* args.tool_crates() when it is reached: CAIRO_CACHE.get_or_init(...) reads or
\* fetches scripts/release_crates.sh (src) once, for the cairo group only
Resolve(src) ==
    IF args.dep # "cairo" \/ cache.set
    THEN [ok |-> TRUE, cache |-> cache, log |-> log]
    ELSE LET x    == ExtractCrates(src.script)
             log1 == IF args.spec.path.some THEN log
                     ELSE Append(log, Event("curl", "upgrade", src.ok, FetchRef(args.spec)))
         IN IF src.ok /\ x.ok
            THEN [ok |-> TRUE, cache |-> [set |-> TRUE, crates |-> x.crates], log |-> log1]
            ELSE [ok |-> FALSE, cache |-> cache, log |-> log1]

UpgradeFail(step) ==
    /\ pc' = "failed"
    /\ failedAt' = step

UpgradeStart ==
    /\ cmd = "upgrade" /\ pc = "start"
    /\ IF disk.valid
       THEN /\ mem' = disk.doc
            /\ pc' = "deps1"
            /\ UNCHANGED failedAt
       ELSE /\ UpgradeFail("parse Cargo.toml")
            /\ UNCHANGED mem
    /\ UNCHANGED << cmd, args, disk, disk0, lock, cache, log, stderr, spc, smem, last >>

UpgradeEditDependencies(here, tablePath, next) ==
    /\ cmd = "upgrade" /\ pc = here
    /\ \E src \in ScriptSources :
         LET need == EditDependenciesNeedsCrates(mem, tablePath)
             r    == IF need THEN Resolve(src) ELSE [ok |-> TRUE, cache |-> cache, log |-> log]
             e    == EditDependencies(mem, tablePath, args.spec,
                                      ToolCrates(args.dep, r.cache.crates))
         IN /\ cache' = r.cache
            /\ log' = r.log
            /\ IF ~r.ok
               THEN UpgradeFail("tool_crates") /\ UNCHANGED << mem, stderr >>
               ELSE IF ~e.ok
               THEN UpgradeFail("edit_dependencies") /\ UNCHANGED << mem, stderr >>
               ELSE /\ mem' = e.doc
                    /\ stderr' = IF mem.deps[tablePath].kind = "table"
                                 THEN Append(stderr, tablePath) ELSE stderr
                    /\ pc' = next
                    /\ UNCHANGED failedAt
    /\ UNCHANGED << cmd, args, disk, disk0, lock, spc, smem, last >>

UpgradeDependencies == UpgradeEditDependencies("deps1", "dependencies", "deps2")
UpgradeDevDependencies == UpgradeEditDependencies("deps2", "dev-dependencies", "deps3")
UpgradeWorkspaceDependencies == UpgradeEditDependencies("deps3", "workspace.dependencies", "patch")

\* a faulty variant of UpgradeEditPatch: Cargo.toml is written before edit_patch has run
UpgradeEditPatchWritesFirst ==
    /\ cmd = "upgrade" /\ pc = "patch"
    /\ disk' = IF ShouldPersist(args) THEN File(TRUE, mem) ELSE disk
    /\ IF mem.patch.kind = "table"
       THEN pc' = "edited" /\ UNCHANGED failedAt
       ELSE UpgradeFail("edit_patch")
    /\ UNCHANGED << cmd, args, disk0, lock, mem, cache, log, stderr, spc, smem, last >>

UpgradeEditPatch ==
    /\ cmd = "upgrade" /\ pc = "patch"
    /\ \E src \in ScriptSources :
         LET present == mem.patch.kind = "table"
             r == IF present THEN Resolve(src) ELSE [ok |-> TRUE, cache |-> cache, log |-> log]
             e == EditPatch(mem, args.dep, args.spec, ToolCrates(args.dep, r.cache.crates))
         IN /\ cache' = r.cache
            /\ log' = r.log
            /\ IF ~r.ok
               THEN UpgradeFail("tool_crates") /\ UNCHANGED << mem, stderr >>
               ELSE IF ~e.ok
               THEN UpgradeFail("edit_patch") /\ UNCHANGED << mem, stderr >>
               ELSE /\ mem' = e.doc
                    /\ stderr' = Append(stderr, "patch.crates-io")
                    /\ pc' = "edited"
                    /\ UNCHANGED failedAt
    /\ UNCHANGED << cmd, args, disk, disk0, lock, spc, smem, last >>

\* a faulty variant of UpgradeWriteEdited: `cargo fetch` is not run before the lock is read
UpgradeWriteEditedNoFetch ==
    /\ cmd = "upgrade" /\ pc = "edited"
    /\ IF ShouldPersist(args)
       THEN /\ disk' = File(TRUE, mem)
            /\ log' = Append(log, Event("write Cargo.toml", "upgrade", TRUE, mem))
            /\ pc' = "purge"
       ELSE /\ pc' = "done"
            /\ UNCHANGED << disk, log >>
    /\ UNCHANGED << cmd, args, disk0, lock, mem, cache, stderr, failedAt, spc, smem, last >>

UpgradeWriteEdited ==
    /\ cmd = "upgrade" /\ pc = "edited"
    /\ IF ShouldPersist(args)
       THEN /\ disk' = File(TRUE, mem)
            /\ log' = Append(log, Event("write Cargo.toml", "upgrade", TRUE, mem))
            /\ pc' = "fetch"
       ELSE /\ pc' = "done"
            /\ UNCHANGED << disk, log >>
    /\ UNCHANGED << cmd, args, disk0, lock, mem, cache, stderr, failedAt, spc, smem, last >>

UpgradeCargoFetch ==
    /\ cmd = "upgrade" /\ pc = "fetch"
    /\ \E ok \in BOOLEAN, fetched \in FetchedLocks :
         /\ log' = Append(log, Event("cargo fetch", "upgrade", ok, <<>>))
         /\ IF ok
            THEN /\ lock' = fetched
                 /\ pc' = "purge"
                 /\ UNCHANGED failedAt
            ELSE /\ UpgradeFail("cargo fetch")
                 /\ UNCHANGED lock
    /\ UNCHANGED << cmd, args, disk, disk0, mem, cache, stderr, spc, smem, last >>

UpgradePurgeUnusedPatches ==
    /\ cmd = "upgrade" /\ pc = "purge"
    /\ LET r == PurgeUnusedPatches(mem, lock)
       IN /\ log' = Append(log, Event("read Cargo.lock", "upgrade", lock.valid, lock))
          /\ IF r.ok
             THEN /\ mem' = r.doc
                  /\ pc' = "write2"
                  /\ UNCHANGED failedAt
             ELSE /\ UpgradeFail("purge_unused_patches")
                  /\ UNCHANGED mem
    /\ UNCHANGED << cmd, args, disk, disk0, lock, cache, stderr, spc, smem, last >>

UpgradeWritePruned ==
    /\ cmd = "upgrade" /\ pc = "write2"
    /\ disk' = File(TRUE, mem)
    /\ log' = Append(log, Event("write Cargo.toml", "upgrade", TRUE, mem))
    /\ pc' = "sync"
    /\ UNCHANGED << cmd, args, disk0, lock, mem, cache, stderr, failedAt, spc, smem, last >>

\* cmd!(sh, "cargo xtask sync-version").run(): the child runs sync_version::main
UpgradeInvokeSync ==
    /\ cmd = "upgrade" /\ pc = "sync"
    /\ \E started \in BOOLEAN :
         /\ log' = Append(log, Event("cargo xtask sync-version", "upgrade", started, <<>>))
         /\ IF started
            THEN /\ spc' = "start"
                 /\ pc' = "wait"
                 /\ UNCHANGED failedAt
            ELSE /\ UpgradeFail("cargo xtask sync-version")
                 /\ UNCHANGED spc
    /\ UNCHANGED << cmd, args, disk, disk0, lock, mem, cache, stderr, smem, last >>

UpgradeSyncReturn ==
    /\ cmd = "upgrade" /\ pc = "wait" /\ spc \in {"done", "failed"}
    /\ IF spc = "done"
       THEN pc' = "done" /\ UNCHANGED failedAt
       ELSE UpgradeFail("cargo xtask sync-version")
    /\ UNCHANGED << cmd, args, disk, disk0, lock, mem, cache, log, stderr, spc, smem, last >>

(* ------------------------------------------------------------------ *)
(* sync_version::main, step by step                                    *)
(* ------------------------------------------------------------------ *)
SyncFail(step) ==
    /\ spc' = "failed"
    /\ failedAt' = step

SyncStart ==
    /\ spc = "start"
    /\ IF disk.valid
       THEN /\ smem' = disk.doc
            /\ spc' = "loaded"
            /\ UNCHANGED failedAt
       ELSE /\ SyncFail("parse Cargo.toml")
            /\ UNCHANGED smem
    /\ UNCHANGED << cmd, args, disk, disk0, lock, mem, pc, cache, log, stderr, last >>

SyncResolve ==
    /\ spc = "loaded"
    /\ LET target == TargetTable(smem)
           r      == SyncCompute(smem, lock, CurSyncArgs.build, CurSyncArgs.no_pre_release)
       IN IF target = ""
          THEN /\ SyncFail("target table")
               /\ UNCHANGED << smem, log, stderr >>
          ELSE /\ log' = Append(log, Event("read Cargo.lock", "sync-version", lock.valid, lock))
               /\ IF r.ok
                  THEN /\ smem' = r.doc
                       /\ stderr' = Append(stderr, target)
                       /\ spc' = "computed"
                       /\ UNCHANGED failedAt
                  ELSE /\ SyncFail(IF ExpectedVersion(lock).ok THEN "parse --build"
                                   ELSE "expected_version")
                       /\ UNCHANGED << smem, stderr >>
    /\ UNCHANGED << cmd, args, disk, disk0, lock, mem, pc, cache, last >>

SyncWrite ==
    /\ spc = "computed"
    /\ IF ShouldPersist(CurSyncArgs)
       THEN /\ disk' = File(TRUE, smem)
            /\ log' = Append(log, Event("write Cargo.toml", "sync-version", TRUE, smem))
            /\ spc' = "written"
       ELSE /\ spc' = "done"
            /\ UNCHANGED << disk, log >>
    /\ UNCHANGED << cmd, args, disk0, lock, mem, pc, cache, stderr, failedAt, smem, last >>

\* nothing reads Cargo.lock after this fetch, so what it leaves there is not modelled
SyncCargoFetch ==
    /\ spc = "written"
    /\ \E ok \in BOOLEAN :
         /\ log' = Append(log, Event("cargo fetch", "sync-version", ok, <<>>))
         /\ IF ok
            THEN spc' = "done" /\ UNCHANGED failedAt
            ELSE SyncFail("cargo fetch")
    /\ UNCHANGED << cmd, args, disk, disk0, lock, mem, pc, cache, stderr, smem, last >>

Next ==
    \/ UpgradeStart
    \/ UpgradeDependencies
    \/ UpgradeDevDependencies
    \/ UpgradeWorkspaceDependencies
    \/ UpgradeEditPatch
    \/ UpgradeWriteEdited
    \/ UpgradeCargoFetch
    \/ UpgradePurgeUnusedPatches
    \/ UpgradeWritePruned
    \/ UpgradeInvokeSync
    \/ UpgradeSyncReturn
    \/ SyncStart
    \/ SyncResolve
    \/ SyncWrite
    \/ SyncCargoFetch

Spec == Init /\ [][Next]_vars

(* ------------------------------------------------------------------ *)
(* The editing operations on their own: edit_dependencies, edit_patch  *)
(* and purge_unused_patches applied to generated tables                *)
(* ------------------------------------------------------------------ *)
EntryChoices ==
    { Entry(k, iv[1], iv[2]) :
        k \in {"anyhow", "cairo-lang-compiler", "cairo-language-server"},
        iv \in { << StrItem(V100), FALSE >>, << StrItem(V100), TRUE >>, << GitInline, TRUE >>,
                 << TableItem(<< Field("version", StrItem(V100)),
                                 Field("features", FeaturesItem) >>), FALSE >> } }

\* tables of at most MaxEntries entries, in any order; a TOML table has no key twice
GenTables ==
    { es \in SeqsUpTo(EntryChoices, MaxEntries) :
        \A i, j \in 1..Len(es) : i # j => es[i].key # es[j].key }

EditDocs ==
    { Doc([p \in TablePaths |-> IF p = "dependencies" THEN Table(es) ELSE NoTable],
          Table(<<>>), NoPkg, NoPkg) : es \in GenTables }
      \cup { Doc([p \in TablePaths |-> NoTable], Table(es), NoPkg, NoPkg) : es \in GenTables }

UnusedChoices ==
    SeqsUpTo({ UnusedRec(TRUE, "anyhow"), UnusedRec(TRUE, "cairo-lang-compiler"),
               UnusedRec(FALSE, "") }, MaxUnused)

EditLocks ==
    { Lock(FALSE, FALSE, <<>>, FALSE, <<>>), Lock(TRUE, TRUE, <<>>, FALSE, <<>>) }
      \cup { Lock(TRUE, TRUE, <<>>, TRUE, u) : u \in UnusedChoices }

InitEdit ==
    /\ cmd = "edit"
    /\ args \in { UpgradeArgs(d, sp, TRUE) : d \in DepNames, sp \in Specs }
    /\ mem \in EditDocs
    /\ cache = [set |-> TRUE, crates |-> << "cairo-lang-compiler", "cairo-lang-utils" >>]
    /\ pc = "edit0"
    /\ last = NoLast
    /\ lock = Lock(TRUE, TRUE, <<>>, FALSE, <<>>)
    /\ disk = File(TRUE, mem)
    /\ disk0 = disk
    /\ smem = EmptyDoc
    /\ spc = "idle"
    /\ log = <<>>
    /\ stderr = <<>>
    /\ failedAt = ""

\* an operation may be applied to a fresh document, or once more to its own result
MayApply(op, path) ==
    \/ pc = "edit0"
    \/ pc = "edit1" /\ last.op = op /\ last.path = path

Applied(op, path, r) ==
    /\ last' = [op |-> op, path |-> path, before |-> mem]
    /\ mem' = r.doc
    /\ pc' = IF ~r.ok THEN "panicked" ELSE IF pc = "edit0" THEN "edit1" ELSE "edit2"

ApplyEditDependencies ==
    /\ cmd = "edit"
    /\ \E path \in TablePaths :
         /\ MayApply("edit_dependencies", path)
         /\ Applied("edit_dependencies", path,
                    EditDependencies(mem, path, args.spec, ToolCrates(args.dep, cache.crates)))
    /\ UNCHANGED << cmd, args, disk, disk0, lock, cache, log, stderr, failedAt, spc, smem >>

ApplyEditPatch ==
    /\ cmd = "edit"
    /\ MayApply("edit_patch", "patch.crates-io")
    /\ Applied("edit_patch", "patch.crates-io",
               EditPatch(mem, args.dep, args.spec, ToolCrates(args.dep, cache.crates)))
    /\ UNCHANGED << cmd, args, disk, disk0, lock, cache, log, stderr, failedAt, spc, smem >>

\* purge_unused_patches on a fresh document or after edit_patch, with Cargo.lock
\* holding any of EditLocks when it is read
ApplyPurgeUnusedPatches ==
    /\ cmd = "edit"
    /\ \/ pc = "edit0"
       \/ pc = "edit1" /\ last.op = "edit_patch"
    /\ \E l \in EditLocks :
         /\ lock' = l
         /\ Applied("purge_unused_patches", "patch.crates-io", PurgeUnusedPatches(mem, l))
    /\ UNCHANGED << cmd, args, disk, disk0, cache, log, stderr, failedAt, spc, smem >>

NextEdit ==
    \/ ApplyEditDependencies
    \/ ApplyEditPatch
    \/ ApplyPurgeUnusedPatches

SpecEdit == InitEdit /\ [][NextEdit]_vars

(* ------------------------------------------------------------------ *)
(* Properties of the editing operations (checked under SpecEdit)       *)
(* ------------------------------------------------------------------ *)
Crates == ToolCrates(args.dep, cache.crates)
TableAt(doc, path) == IF path = "patch.crates-io" THEN doc.patch ELSE doc.deps[path]
AllPaths == TablePaths \cup {"patch.crates-io"}
EntriesBefore == TableAt(last.before, last.path).entries
EntriesAfter == TableAt(mem, last.path).entries
Completed(op) == cmd = "edit" /\ pc \in {"edit1", "edit2"} /\ last.op = op
Positions(es, k) == {j \in 1..Len(es) : es[j].key = k}
OthersUntouched == \A p \in AllPaths \ {last.path} : TableAt(mem, p) = TableAt(last.before, p)

\* C4: after edit_patch every crate of the group has no entry in [patch.crates-io]
\* when the spec has no rev, branch or path, and otherwise exactly one entry, an
\* inline table with git iff rev or branch was given (the group's repository), rev
\* iff a rev was given, branch iff a branch was given, path iff a path was given
\* (<root>/crates/<crate>), and no other field.
C4_PatchEntriesFollowSpec ==
    Completed("edit_patch") =>
      \A c \in Range(Crates) :
        LET at == Positions(EntriesAfter, c)
            sp == args.spec
        IN IF ~(sp.rev.some \/ sp.branch.some \/ sp.path.some)
           THEN at = {}
           ELSE /\ Cardinality(at) = 1
                /\ LET item == EntriesAfter[CHOOSE j \in at : TRUE].item
                       fs   == item.fields
                       root == sp.path.v
                       sep  == IF root[Len(root)] = "/" THEN <<>> ELSE << "/" >>
                   IN /\ item.kind = "inline"
                      /\ FieldNames(fs) \subseteq {"git", "branch", "rev", "path"}
                      /\ Len(fs) = Cardinality(FieldNames(fs))
                      /\ HasField(fs, "git") <=> (sp.rev.some \/ sp.branch.some)
                      /\ HasField(fs, "git") =>
                           GetField(fs, "git") = StrItem(<< ToolRepo(args.dep) >>)
                      /\ HasField(fs, "rev") <=> sp.rev.some
                      /\ sp.rev.some => GetField(fs, "rev") = StrItem(sp.rev.v)
                      /\ HasField(fs, "branch") <=> sp.branch.some
                      /\ sp.branch.some => GetField(fs, "branch") = StrItem(sp.branch.v)
                      /\ HasField(fs, "path") <=> sp.path.some
                      /\ sp.path.some =>
                           GetField(fs, "path") = StrItem(root \o sep \o << "crates", "/", c >>)

\* a revision-only request of the cairo group replaced a stale entry and added one
\* for a crate the manifest never named
C4_Witness ==
    /\ Completed("edit_patch")
    /\ args.dep = "cairo" /\ args.spec.rev.some /\ ~args.spec.version.some
    /\ HasKey(EntriesBefore, "cairo-lang-compiler")
    /\ ~HasKey(EntriesBefore, "cairo-lang-utils")
    /\ HasKey(EntriesAfter, "cairo-lang-utils")
    /\ FieldNames(GetEntry(EntriesAfter, "cairo-lang-compiler").item.fields) = {"git", "rev"}

C7_EditDependenciesIdempotent ==
    (cmd = "edit" /\ pc = "edit2" /\ last.op = "edit_dependencies") => mem = last.before

\* edit_dependencies ran twice on a table holding an owned entry with features and a
\* foreign entry
C7_Witness ==
    /\ cmd = "edit" /\ pc = "edit2" /\ last.op = "edit_dependencies"
    /\ Len(EntriesAfter) = 2
    /\ \E i \in 1..2 : /\ EntriesAfter[i].key \in Range(Crates)
                       /\ EntriesAfter[i].item.kind = "inline"
    /\ \E i \in 1..2 : EntriesAfter[i].key \notin Range(Crates)

RunFailed == (cmd = "upgrade" /\ pc = "failed") \/ (cmd = "sync-version" /\ spc = "failed")
IsWrite(e) == e.ev = "write Cargo.toml"
IsCommand(e) == e.ev \in {"curl", "cargo fetch", "cargo xtask sync-version"}
Writes == SelectSeq(log, IsWrite)

\* lines 61-64 of upgrade::main on a document, when none of the four steps fails
UpgradeEdits(doc, dep, spec, crates) ==
    LET d1 == EditDependencies(doc, "dependencies", spec, crates).doc
        d2 == EditDependencies(d1, "dev-dependencies", spec, crates).doc
        d3 == EditDependencies(d2, "workspace.dependencies", spec, crates).doc
    IN EditPatch(d3, dep, spec, crates).doc

\* C1 as stated: a dry run never writes Cargo.toml and never runs an external
\* command or a network fetch.
C1_DryRunNoWriteNoCommand ==
    args.dry_run =>
      /\ disk = disk0
      /\ \A i \in 1..Len(log) : ~IsWrite(log[i]) /\ ~IsCommand(log[i])

\* C1 as amended: a dry run never writes Cargo.toml and never runs cargo; the one
\* command it may run is the curl that fetches scripts/release_crates.sh, for the
\* cairo group without --path; and a dry run that ends well has printed its preview.
C1_DryRunNoWriteOnlyCurl ==
    args.dry_run =>
      /\ disk = disk0
      /\ \A i \in 1..Len(log) :
           /\ ~IsWrite(log[i])
           /\ IsCommand(log[i]) =>
                /\ log[i].ev = "curl"
                /\ cmd = "upgrade" /\ args.dep = "cairo" /\ ~args.spec.path.some
      /\ (cmd = "upgrade" /\ pc = "done") =>
           /\ stderr # <<>> /\ stderr[Len(stderr)] = "patch.crates-io"
           /\ mem = UpgradeEdits(disk0.doc, args.dep, args.spec, Crates)
      /\ (cmd = "sync-version" /\ spc = "done") =>
           /\ stderr \in { << "workspace.package" >>, << "package" >> }
           /\ smem = SyncCompute(disk0.doc, lock, args.build, args.no_pre_release).doc

\* a dry run of upgrade for the cairo group ended well: it fetched the crate list,
\* edited the document in memory and left the disk alone
C1_Witness ==
    /\ cmd = "upgrade" /\ args.dry_run /\ pc = "done"
    /\ args.dep = "cairo" /\ args.spec.rev.some
    /\ Len(log) = 1 /\ log[1].ev = "curl"
    /\ mem # disk0.doc /\ disk = disk0

AfterFirstWrite == {"cargo fetch", "purge_unused_patches", "cargo xtask sync-version"}

\* C2 as stated: a run that ends in failure leaves Cargo.toml as it was.
C2_FailedRunLeavesDisk == RunFailed => disk = disk0

\* C2 as amended: a run that fails before its first write (manifest parse, missing
\* structure, crate-list fetch, lock resolution, version or --build parse) leaves
\* Cargo.toml as it was; Cargo.toml always holds either what it held at the start
\* or the last document written, and the first document written is the completely
\* edited one.  A failure of cargo fetch, of the pruning step or of the sync-version
\* follow-up comes after that write.
C2_FailureBeforeFirstWriteLeavesDisk ==
    /\ (RunFailed /\ failedAt \notin AfterFirstWrite) => (disk = disk0 /\ Writes = <<>>)
    /\ (RunFailed /\ failedAt \in AfterFirstWrite) => Writes # <<>>
    /\ Writes = <<>> => disk = disk0
    /\ Writes # <<>> => disk = File(TRUE, Writes[Len(Writes)].data)
    /\ (cmd = "upgrade" /\ Writes # <<>>) =>
         Writes[1].data = UpgradeEdits(disk0.doc, args.dep, args.spec, Crates)
    /\ (cmd = "sync-version" /\ Writes # <<>>) =>
         /\ Len(Writes) = 1
         /\ Writes[1].data = SyncCompute(disk0.doc, lock, args.build, args.no_pre_release).doc

\* a real run edited the document in memory, then failed in edit_patch for want of
\* a [patch.crates-io] table: nothing was written
C2_Witness ==
    /\ cmd = "upgrade" /\ ~args.dry_run
    /\ pc = "failed" /\ failedAt = "edit_patch"
    /\ mem # disk0.doc
    /\ disk = disk0 /\ log = <<>>

CompilerPackages == {i \in 1..Len(lock.packages) : lock.packages[i].name = "cairo-lang-compiler"}

\* C3: expected_version succeeds only on a lock document with exactly one
\* cairo-lang-compiler package, and then returns the version that package records;
\* sync_version::main gets past it only then.
C3_ExactlyOneCompilerPackage ==
    LET r == ExpectedVersion(lock)
    IN /\ r.ok =>
            /\ lock.valid /\ lock.hasPackages
            /\ Cardinality(CompilerPackages) = 1
            /\ VersionToString(r.v) = lock.packages[CHOOSE i \in CompilerPackages : TRUE].version
       /\ Cardinality(CompilerPackages) # 1 => ~r.ok
       /\ spc \in {"computed", "written", "done"} => Cardinality(CompilerPackages) = 1

\* sync-version resolved the version from a lock document listing the compiler after
\* another package
C3_Witness ==
    /\ cmd = "sync-version" /\ spc = "computed"
    /\ Len(lock.packages) = 2
    /\ lock.packages[1].name = "anyhow"
    /\ lock.packages[2] = Package("cairo-lang-compiler", V230rc1b5)

\* C9 as stated: once sync_version::main has computed the version, it is in the
\* version field of workspace.package when the manifest has a workspace.package, and
\* of package otherwise: the compiler's version from the lock document with the build
\* metadata replaced by --build and the pre-release cleared by --no-pre-release.
C9_VersionWrittenToTargetTable ==
    (cmd = "sync-version" /\ spc \in {"computed", "written", "done"}) =>
      LET pv == ParseVersion(lock.packages[CHOOSE i \in CompilerPackages : TRUE].version).v
          b  == IF args.build.some THEN args.build.v ELSE pv.build
          p  == IF args.no_pre_release THEN <<>> ELSE pv.pre
          expected == VersionToString([pv EXCEPT !.build = b, !.pre = p])
      IN /\ disk0.doc.wsPackage.kind # "none" =>
              smem = [disk0.doc EXCEPT !.wsPackage.version = expected]
         /\ disk0.doc.wsPackage.kind = "none" =>
              smem = [disk0.doc EXCEPT !.package.version = expected]
         /\ (spc \in {"written", "done"} /\ ~args.dry_run) => disk = File(TRUE, smem)

UpgradeSteps == << "write Cargo.toml", "cargo fetch", "read Cargo.lock", "write Cargo.toml",
                   "cargo xtask sync-version" >>
IsUpgradeStep(e) == e.by = "upgrade" /\ e.ev # "curl"
UpgradeLog == SelectSeq(log, IsUpgradeStep)

\* C10: what upgrade writes, runs and reads after its in-memory edits is a prefix
\* of: write the edited manifest, cargo fetch, read Cargo.lock, write the pruned
\* manifest, cargo xtask sync-version; each step but the last taken has succeeded;
\* the manifest written second is the first one pruned by the lock document read
\* after the fetch; and sync_version::main acts only once upgrade has started it.
C10_UpgradeStepsInOrder ==
    cmd = "upgrade" =>
      /\ Len(UpgradeLog) <= Len(UpgradeSteps)
      /\ \A i \in 1..Len(UpgradeLog) : UpgradeLog[i].ev = UpgradeSteps[i]
      /\ \A i \in 1..(Len(UpgradeLog) - 1) : UpgradeLog[i].ok
      /\ Len(UpgradeLog) >= 1 =>
           UpgradeLog[1].data = UpgradeEdits(disk0.doc, args.dep, args.spec, Crates)
      /\ Len(UpgradeLog) >= 4 =>
           UpgradeLog[4].data = PurgeUnusedPatches(UpgradeLog[1].data, UpgradeLog[3].data).doc
      /\ Len(UpgradeLog) = 5 => (mem = UpgradeLog[4].data /\ Writes[2].data = mem)
      /\ \A i \in 1..Len(log) :
           log[i].by = "sync-version" =>
             \E j \in 1..(i - 1) : log[j].ev = "cargo xtask sync-version" /\ log[j].ok
      /\ args.dry_run => UpgradeLog = <<>>

\* a real run went through all five steps, pruned a patch entry on the way, and the
\* sync-version it started wrote the manifest in its turn
C10_Witness ==
    /\ cmd = "upgrade" /\ pc = "done"
    /\ Len(UpgradeLog) = 5
    /\ UpgradeLog[4].data # UpgradeLog[1].data
    /\ Len(Writes) = 3 /\ Writes[3].by = "sync-version"

====
